---- MODULE Spec2Model ----
(***************************************************************************)
(* A model of the boids flocking simulation: Vector / Point arithmetic     *)
(* (src/vector.py, src/point.py), the Boid force model (src/boid.py), the  *)
(* BoidManager with its KD-tree snapshot (src/boidmanager.py) and the      *)
(* frame loop of run_simulation (src/simulation.py).                       *)
(*                                                                         *)
(* Numbers.  Every coordinate of the program is a numpy float64.  A float  *)
(* is modelled as a record [m, e] standing for m * 2^e, with a significand *)
(* of MantissaBits bits instead of 53, and every arithmetic operation      *)
(* rounds its exact result to the nearest representable value, ties to     *)
(* even, as IEEE-754 does.  Exponents are unbounded integers: overflow and *)
(* underflow, which the simulation's value ranges never come near, are not *)
(* modelled.                                                               *)
(***************************************************************************)
EXTENDS Integers, Sequences, FiniteSets, TLC

\* Significand width of the model's floats (float64 has 53).
MantissaBits == 8

\* ------------------------------------------------------------ integers
RECURSIVE Pow2(_)
Pow2(k) == IF k <= 0 THEN 1 ELSE 2 * Pow2(k - 1)

RECURSIVE BitLen(_)
BitLen(n) == IF n <= 0 THEN 0 ELSE 1 + BitLen(n \div 2)

Abs(n) == IF n < 0 THEN -n ELSE n

Sgn(n) == IF n < 0 THEN -1 ELSE IF n > 0 THEN 1 ELSE 0

RECURSIVE GCD(_, _)
GCD(a, b) == IF b = 0 THEN a ELSE GCD(b, a % b)

\* floor(sqrt(n)) by bisection on lo <= sqrt(n) < hi
RECURSIVE ISqrtIn(_, _, _)
ISqrtIn(n, lo, hi) ==
    IF hi - lo <= 1 THEN lo
    ELSE IF ((lo + hi) \div 2) * ((lo + hi) \div 2) <= n
         THEN ISqrtIn(n, (lo + hi) \div 2, hi)
         ELSE ISqrtIn(n, lo, (lo + hi) \div 2)

ISqrt(n) == ISqrtIn(n, 0, Pow2((BitLen(n) + 1) \div 2) + 1)

\* the quotient q of a division that left remainder r, rounded to the nearest
\* integer, ties to even; half is half the divisor
RoundQuotient(q, r, half) ==
    IF r > half \/ (r = half /\ q % 2 = 1) THEN q + 1 ELSE q

\* n / 2^k rounded to the nearest integer, ties to even (n >= 0, k >= 0)
RoundShift(n, k) ==
    IF k = 0 THEN n
    ELSE RoundQuotient(n \div Pow2(k), n % Pow2(k), Pow2(k - 1))

\* -------------------------------------------------------------- floats
Zero == [m |-> 0, e |-> 0]

\* The float nearest to the exact value n * 2^e (round to nearest, ties to
\* even), in canonical form: 2^(MantissaBits-1) <= |m| < 2^MantissaBits.
\* sign s and rounded significand q at exponent e: rounding up may have
\* carried into a further bit
Carried(s, q, e) ==
    IF q = Pow2(MantissaBits)
    THEN [m |-> s * Pow2(MantissaBits - 1), e |-> e + 1]
    ELSE [m |-> s * q, e |-> e]

\* sign s and magnitude a * 2^e, a > 0 of bit length L
Rounded(s, a, L, e) ==
    IF L > MantissaBits
    THEN Carried(s, RoundShift(a, L - MantissaBits), e + (L - MantissaBits))
    ELSE [m |-> s * a * Pow2(MantissaBits - L), e |-> e - (MantissaBits - L)]

Fl(n, e) ==
    IF n = 0 THEN Zero
    ELSE Rounded(Sgn(n), Abs(n), BitLen(Abs(n)), e)

\* float(n) of an integer n
FromInt(n) == Fl(n, 0)

Neg(a) == [m |-> -a.m, e |-> a.e]

\* a + b of two floats: the exact sum, rounded.  When the exponents are more
\* than MantissaBits + 1 apart the smaller operand is below a quarter of the
\* larger one's last place and the rounded sum is the larger operand.
Add(a, b) ==
    IF a.m = 0 THEN b
    ELSE IF b.m = 0 THEN a
    ELSE IF a.e - b.e >= MantissaBits + 2 THEN a
    ELSE IF b.e - a.e >= MantissaBits + 2 THEN b
    ELSE IF a.e < b.e THEN Fl(a.m + b.m * Pow2(b.e - a.e), a.e)
    ELSE Fl(a.m * Pow2(a.e - b.e) + b.m, b.e)

Sub(a, b) == Add(a, Neg(b))

Mul(a, b) == Fl(a.m * b.m, a.e + b.e)

\* a / b (b nonzero): the quotient to MantissaBits + 2 bits and a sticky bit
\* for the remainder, rounded once.
Sticky(q, exact) == IF exact THEN 2 * q ELSE 2 * q + 1

Quotient(s, num, den, e) ==
    Fl(s * Sticky(num \div den, num % den = 0), e)

Div(a, b) ==
    IF a.m = 0 \/ b.m = 0 THEN Zero
    ELSE Quotient(Sgn(a.m) * Sgn(b.m), Abs(a.m) * Pow2(MantissaBits + 2), Abs(b.m),
                  a.e - b.e - MantissaBits - 3)

\* sqrt(a) (a >= 0), correctly rounded
\* the guard bits of the root: half of MantissaBits + 3, rounded down
RootGuard == (MantissaBits + 3) \div 2

\* the rounded root of n * 2^e (e even), r being floor(sqrt(n))
Root(n, r, e) == Fl(Sticky(r, r * r = n), e \div 2 - RootGuard - 1)

\* sqrt(m * 2^e) for m > 0 and e even
SqrtEven(m, e) ==
    Root(m * Pow2(2 * RootGuard), ISqrt(m * Pow2(2 * RootGuard)), e)

Sqrt(a) ==
    IF a.m <= 0 THEN Zero
    ELSE IF a.e % 2 = 1 THEN SqrtEven(2 * a.m, a.e - 1)
    ELSE SqrtEven(a.m, a.e)

\* a < b: the sign of the exact difference (rounding never changes it)
Lt(a, b) == Sub(a, b).m < 0

Le(a, b) == Sub(a, b).m <= 0

\* the rational num / den as a float (a Python literal such as 0.03)
Rat(num, den) == Div(FromInt(num), FromInt(den))


One == FromInt(1)

AbsF(a) == [m |-> Abs(a.m), e |-> a.e]

\* ------------------------------------------------ Vector (src/vector.py)
\* A Vector's components and a Point's coordinates are pairs <<x, y>>.
ZeroVec == <<Zero, Zero>>

\* Vector.__add__
VecAdd(u, v) == <<Add(u[1], v[1]), Add(u[2], v[2])>>

\* Vector.__sub__
VecSub(u, v) == <<Sub(u[1], v[1]), Sub(u[2], v[2])>>

\* Vector.__mul__ / __rmul__
VecMul(v, scalar) == <<Mul(v[1], scalar), Mul(v[2], scalar)>>

\* Vector.magnitude: np.linalg.norm = sqrt(dot(x, x))
Magnitude(v) == Sqrt(Add(Mul(v[1], v[1]), Mul(v[2], v[2])))

\* mutant of NormalizeRaises: a zero magnitude is not reported
NormalizeRaises_Never(v) == FALSE

\* Vector.normalize raises ValueError when the magnitude is 0
NormalizeRaises(v) == Magnitude(v) = Zero

\* self.components / mag
VecDiv(v, mag) == <<Div(v[1], mag), Div(v[2], mag)>>

\* Vector.normalize: components / mag
Normalize(v) == VecDiv(v, Magnitude(v))

\* -------------------------------------------------- Point (src/point.py)
\* Point.__add__
PointAdd(p, q) == <<Add(p[1], q[1]), Add(p[2], q[2])>>

\* Point.__sub__ (a Vector)
PointSub(p, q) == <<Sub(p[1], q[1]), Sub(p[2], q[2])>>

\* Point.__mul__ / __rmul__
PointMul(p, scalar) == <<Mul(p[1], scalar), Mul(p[2], scalar)>>

\* ---------------------------------------------------- angles (np.arctan2)
\* An angle is kept as the ray it names: for x = ox * 2^tx and y = oy * 2^ty
\* with ox, oy odd, the ray through (x, y) is [x |-> ox/g, y |-> oy/g,
\* k |-> tx - ty] with g = gcd(|ox|, |oy|).  Two vectors have the same
\* arctan2 exactly when they have the same ray; arctan2(0, 0) = 0 is the ray
\* of (1, 0).
RECURSIVE OddForm(_, _)
OddForm(m, t) == IF m % 2 = 0 THEN OddForm(m \div 2, t + 1) ELSE [o |-> m, t |-> t]

Atan2(y, x) ==
    IF y.m = 0 THEN [x |-> IF x.m < 0 THEN -1 ELSE 1, y |-> 0, k |-> 0]
    ELSE IF x.m = 0 THEN [x |-> 0, y |-> Sgn(y.m), k |-> 0]
    ELSE LET fx == OddForm(x.m, x.e)
             fy == OddForm(y.m, y.e)
             g == GCD(Abs(fx.o), Abs(fy.o))
         IN  [x |-> fx.o \div g, y |-> fy.o \div g, k |-> fx.t - fy.t]

\* a vector along the ray of an angle
RayVec(heading) == <<Fl(heading.x, heading.k), Fl(heading.y, 0)>>

\* np.cos / np.sin of an angle
Cos(heading) == Normalize(RayVec(heading))[1]

Sin(heading) == Normalize(RayVec(heading))[2]


\* ---------------------------------------------------- Boid (src/boid.py)
\* A Boid is a record [position, heading, velocity, vertices].  Its tuning
\* fields (height, width, max_velocity, separation_intensity and the three
\* weights) are copies of the manager's, set at construction and never
\* assigned again: they are read from the configuration record cfg.

\* Boid._compute_vertices
\* the three vertices for c = np.cos(self.heading), s = np.sin(self.heading)
Vertices(position, c, s, cfg) ==
    << PointAdd(position, PointMul(<<c, s>>, cfg.boid_height)),
       PointAdd(position, PointMul(<<Neg(s), c>>, cfg.boid_width)),
       PointAdd(position, PointMul(<<s, Neg(c)>>, cfg.boid_width)) >>

ComputeVertices(position, heading, cfg) ==
    Vertices(position, Cos(heading), Sin(heading), cfg)

\* Boid.separation raises when normalize is given a zero distance vector.
\* neighbors is a sequence of indices into bs, the live Boid objects.
SeparationRaises(self, neighbors, bs) ==
    \E k \in 1..Len(neighbors) :
        NormalizeRaises(PointSub(self.position, bs[neighbors[k]].position))

\* distance_vector.normalize() * (self.separation_intensity / distance_magnitude)
RepulsionAlong(distance_vector, cfg) ==
    VecMul(Normalize(distance_vector),
           Div(cfg.separation_intensity, Magnitude(distance_vector)))

\* one neighbour's term of Boid.separation's loop
Repulsion(self, neighbor, cfg) ==
    RepulsionAlong(PointSub(self.position, neighbor.position), cfg)

\* the loop of Boid.separation over neighbors[1..k]
RECURSIVE SeparationSum(_, _, _, _, _)
SeparationSum(self, neighbors, bs, cfg, k) ==
    IF k = 0 THEN ZeroVec
    ELSE VecAdd(SeparationSum(self, neighbors, bs, cfg, k - 1),
                Repulsion(self, bs[neighbors[k]], cfg))

\* separation_force * (1 / len(neighbors)) if there are neighbors
Averaged(separation_force, n) ==
    IF n > 0 THEN VecMul(separation_force, Rat(1, n)) ELSE separation_force

\* Boid.separation
Separation(self, neighbors, bs, cfg) ==
    Averaged(SeparationSum(self, neighbors, bs, cfg, Len(neighbors)), Len(neighbors))

\* sum((neighbor.velocity for neighbor in neighbors), Vector([0, 0]))
RECURSIVE VelocitySum(_, _, _)
VelocitySum(neighbors, bs, k) ==
    IF k = 0 THEN ZeroVec
    ELSE VecAdd(VelocitySum(neighbors, bs, k - 1), bs[neighbors[k]].velocity)

\* mutant of Alignment: no test for the empty neighbour list
Alignment_NoGuard(self, neighbors, bs) ==
    VecSub(VelocitySum(neighbors, bs, Len(neighbors)), self.velocity)

\* Boid.alignment
Alignment(self, neighbors, bs) ==
    IF Len(neighbors) = 0 THEN ZeroVec
    ELSE VecSub(VecMul(VelocitySum(neighbors, bs, Len(neighbors)),
                       Rat(1, Len(neighbors))),
                self.velocity)

\* sum((neighbor.position for neighbor in neighbors), Point([0, 0]))
RECURSIVE PositionSum(_, _, _)
PositionSum(neighbors, bs, k) ==
    IF k = 0 THEN ZeroVec
    ELSE PointAdd(PositionSum(neighbors, bs, k - 1), bs[neighbors[k]].position)

\* Boid.cohesion
Cohesion(self, neighbors, bs) ==
    IF Len(neighbors) = 0 THEN ZeroVec
    ELSE VecSub(PointMul(PositionSum(neighbors, bs, Len(neighbors)),
                         Rat(1, Len(neighbors))),
                self.position)

\* The three weighted forces of Boid.update (lines 73-75).
Forces(self, ns, na, nc, bs, cfg) ==
    [separation |-> VecMul(Separation(self, ns, bs, cfg), cfg.separation_weight),
     alignment  |-> VecMul(Alignment(self, na, bs), cfg.alignment_weight),
     cohesion   |-> VecMul(Cohesion(self, nc, bs), cfg.cohesion_weight)]

NoForces == [separation |-> ZeroVec, alignment |-> ZeroVec, cohesion |-> ZeroVec]

\* self.velocity + separation_force + alignment_force + cohesion_force
CombinedVelocity(velocity, f) ==
    VecAdd(VecAdd(VecAdd(velocity, f.separation), f.alignment), f.cohesion)

\* mutant of LimitVelocity: the unit vector is not scaled back to max_velocity
LimitVelocity_NoRescale(velocity, max_velocity) == Normalize(velocity)

\* self.velocity.normalize() * self.max_velocity
LimitVelocity(velocity, max_velocity) == VecMul(Normalize(velocity), max_velocity)

\* mutant of NewHeading: the heading is not recomputed
NewHeading_Stale(heading, velocity) == heading

\* np.arctan2(self.velocity.components[1], self.velocity.components[0])
NewHeading(heading, velocity) == Atan2(velocity[2], velocity[1])

\* a Boid with the given fields and the vertices computed from them
Placed(position, heading, velocity, cfg) ==
    [position |-> position,
     heading |-> heading,
     velocity |-> velocity,
     vertices |-> ComputeVertices(position, heading, cfg)]

\* lines 84-86 of Boid.update, self.velocity being the limited velocity
Moved(self, velocity, cfg) ==
    Placed(PointAdd(self.position, velocity), NewHeading(self.heading, velocity),
           velocity, cfg)

\* lines 81-86 of Boid.update, line 78 having assigned combined to
\* self.velocity: normalize() raises on a zero vector and leaves it there
Limited(self, f, combined, cfg) ==
    IF NormalizeRaises(combined)
    THEN [raised |-> TRUE, boid |-> [self EXCEPT !.velocity = combined], forces |-> f]
    ELSE [raised |-> FALSE,
          boid |-> Moved(self, LimitVelocity(combined, cfg.max_velocity), cfg),
          forces |-> f]

\* lines 78-86 of Boid.update for the weighted forces f
Steered(self, f, cfg) == Limited(self, f, CombinedVelocity(self.velocity, f), cfg)

\* Boid.update.  The result is [raised, boid, forces]: raised tells whether the
\* call ended in ValueError, boid is the object as the call leaves it, forces
\* are the forces it computed.  separation() raises before anything is
\* assigned; the normalize() of line 81 raises after line 78 has assigned
\* self.velocity.
BoidUpdate(self, ns, na, nc, bs, cfg) ==
    IF SeparationRaises(self, ns, bs)
    THEN [raised |-> TRUE, boid |-> self, forces |-> NoForces]
    ELSE Steered(self, Forces(self, ns, na, nc, bs, cfg), cfg)


\* ------------------------------------- BoidManager (src/boidmanager.py)
\* self.kd_tree = None
None == [present |-> FALSE, data |-> <<>>]

\* KDTree(positions): positions is a fresh array, np.array having copied the
\* coordinates, so the tree holds the positions as they were when it was built
KDTree(positions) == [present |-> TRUE, data |-> positions]

\* np.mod(a, w) for w > 0, as numpy computes it: r = fmod(a, w), which is
\* exact and has the sign of a; a negative r is then replaced by r + w, a
\* float addition.
FMod(a, w) ==
    IF Lt(AbsF(a), w) THEN a
    ELSE Fl(Sgn(a.m) * ((Abs(a.m) * Pow2(a.e - w.e)) % w.m), w.e)

\* the remainder r = fmod(a, w) brought to the sign of w
Floored(r, w) == IF r.m < 0 THEN Add(r, w) ELSE r

NpMod(a, w) == Floored(FMod(a, w), w)

\* KDTree.query_ball_point(x, r) on the tree's copy of the positions: the
\* indices, in index order, of the points within distance r of x.
SquaredNorm(d) == Add(Mul(d[1], d[1]), Mul(d[2], d[2]))

WithinRadius(p, x, r) == Le(SquaredNorm(PointSub(p, x)), Mul(r, r))

RECURSIVE QueryBallPoint(_, _, _, _)
QueryBallPoint(tree, x, r, k) ==
    IF k = 0 THEN <<>>
    ELSE IF WithinRadius(tree[k], x, r)
         THEN Append(QueryBallPoint(tree, x, r, k - 1), k)
         ELSE QueryBallPoint(tree, x, r, k - 1)

\* mutant of SameObject: boids are compared by their positions
SameObject_ByValue(bs, j, i) == bs[j].position = bs[i].position

\* [self.boids[i] for i in neighbor_indices if self.boids[i] != boid]: Boid
\* defines no __eq__, so != compares object identity, here the index.
SameObject(bs, j, i) == j = i

RECURSIVE ExcludeSelf(_, _, _, _)
ExcludeSelf(neighbor_indices, bs, i, k) ==
    IF k = 0 THEN <<>>
    ELSE IF ~SameObject(bs, neighbor_indices[k], i)
         THEN Append(ExcludeSelf(neighbor_indices, bs, i, k - 1), neighbor_indices[k])
         ELSE ExcludeSelf(neighbor_indices, bs, i, k - 1)

\* the list comprehension over all of neighbor_indices
Others(neighbor_indices, bs, i) ==
    ExcludeSelf(neighbor_indices, bs, i, Len(neighbor_indices))

\* BoidManager.get_neighbors(self.boids[i], radius): the neighbours are the
\* live Boid objects, kept here as their indices.
GetNeighbors(tree, bs, i, radius) ==
    IF tree = None THEN <<>>
    ELSE Others(QueryBallPoint(tree.data, bs[i].position, radius, Len(tree.data)),
                bs, i)

\* mutant of TreePositions: the positions are indexed in reverse order
TreePositions_Reversed(bs) == [k \in 1..Len(bs) |-> bs[Len(bs) + 1 - k].position]

\* positions = np.array([boid.position.coordinates for boid in self.boids])
TreePositions(bs) == [k \in 1..Len(bs) |-> bs[k].position]

\* BoidManager.apply_screen_wrap
ScreenWrap(self, cfg) ==
    [self EXCEPT !.position = << NpMod(self.position[1], FromInt(cfg.width)),
                                 NpMod(self.position[2], FromInt(cfg.height)) >>]

\* one Boid of BoidManager.initialize_boids, from the two random draws
Created(position, velocity, cfg) ==
    Placed(position, Atan2(velocity[2], velocity[1]), velocity, cfg)

NewBoid(position, random_velocity, cfg) ==
    Created(position, VecMul(Normalize(random_velocity), cfg.max_velocity), cfg)


\* -------------------------------------------------------------- bounds
\* the largest population
MaxBoids == 2

\* the number of frames the window stays open for at most
MaxFrames == 2

\* -------------------------------------- configurations (src/config.py)
\* The two-agent separation scenario of the specification: maxSpeed 1,
\* separationIntensity 3.0, separationWeight 0.5, separationRadius 5, no
\* alignment and no cohesion, in a world of the given bounds.
ScenarioConfig(width, height, n) ==
    [width |-> width, height |-> height, num_boids |-> n,
     boid_height |-> FromInt(10), boid_width |-> FromInt(3),
     max_velocity |-> FromInt(1),
     separation_intensity |-> FromInt(3),
     separation_weight |-> Rat(1, 2),
     alignment_weight |-> Zero,
     cohesion_weight |-> Zero,
     separation_radius |-> FromInt(5),
     alignment_radius |-> FromInt(5),
     cohesion_radius |-> FromInt(5)]

\* A flock with all three rules active: BoidManager's default intensity and
\* weights (3.0, 0.5, 0.03, 0.001), the default max_velocity 2.0, and, as in
\* config.py, a separation radius below the alignment and cohesion radii.
FlockConfig(n) ==
    [width |-> 8, height |-> 4, num_boids |-> n,
     boid_height |-> FromInt(10), boid_width |-> FromInt(3),
     max_velocity |-> FromInt(2),
     separation_intensity |-> FromInt(3),
     separation_weight |-> Rat(1, 2),
     alignment_weight |-> Rat(3, 100),
     cohesion_weight |-> Rat(1, 1000),
     separation_radius |-> Rat(5, 4),
     alignment_radius |-> FromInt(2),
     cohesion_radius |-> FromInt(2)]

ScenarioWidths == {2, 3, 4, 8}

Configs(n) == {ScenarioConfig(w, 4, n) : w \in ScenarioWidths} \cup {FlockConfig(n)}

\* the largest float below 1
BelowOne == Fl(Pow2(MantissaBits) - 1, -MantissaBits)

\* The random draws of initialize_boids: a position and a velocity direction.
Starts ==
    { [position |-> <<Zero, Zero>>,               random |-> <<One, Zero>>],
      [position |-> <<One, Zero>>,                random |-> <<One, Zero>>],
      [position |-> <<Rat(3, 2), Zero>>,          random |-> <<One, One>>],
      [position |-> <<BelowOne, One>>,            random |-> <<Neg(One), Zero>>],
      [position |-> <<Rat(1, 2), Rat(1, 2)>>,     random |-> <<Rat(-3, 5), Rat(-4, 5)>>],
      [position |-> <<FromInt(5), FromInt(3)>>,   random |-> <<Rat(1, 4), Neg(One)>>] }

\* np.random.uniform(0, width), np.random.uniform(0, height)
InWorld(position, cfg) ==
    /\ Le(Zero, position[1]) /\ Lt(position[1], FromInt(cfg.width))
    /\ Le(Zero, position[2]) /\ Lt(position[2], FromInt(cfg.height))

\* ---------------------------------------------------------------- state
VARIABLES
    config,                 \* CONFIG and the BoidManager's copies of it
    boids,                  \* BoidManager.boids
    kd_tree,                \* BoidManager.kd_tree: None or the indexed positions
    is_running,             \* run_simulation's flag
    pc,                     \* where run_simulation stands
    boid_i,                 \* the index of the for loop's boid
    neighbors_separation,   \* the three neighbour lists of the current boid
    neighbors_alignment,
    neighbors_cohesion,
    frame,                  \* frames begun so far
    frame_start,            \* history: boids as they were at the last update_kdtree
    last_update             \* history: the Boid.update call made last: whose it was,
                            \* whether it raised, its forces, the position it left

vars == << config, boids, kd_tree, is_running, pc, boid_i, neighbors_separation,
           neighbors_alignment, neighbors_cohesion, frame, frame_start, last_update >>

NoUpdate == [self |-> 0, raised |-> FALSE, forces |-> NoForces, position |-> ZeroVec]

\* BoidManager.__init__ with initialize_boids, up to the while loop
Init ==
    \E n \in 0..MaxBoids :
      \E cfg \in Configs(n) :
        \E draws \in [1..n -> {s \in Starts : InWorld(s.position, cfg)}] :
          /\ config = cfg
          /\ boids = [k \in 1..n |-> NewBoid(draws[k].position, draws[k].random, cfg)]
          /\ kd_tree = None
          /\ is_running = TRUE
          /\ pc = "events"
          /\ boid_i = 0
          /\ neighbors_separation = <<>>
          /\ neighbors_alignment = <<>>
          /\ neighbors_cohesion = <<>>
          /\ frame = 0
          /\ frame_start = <<>>
          /\ last_update = NoUpdate

\* clock.tick, screen.fill and the event loop: a QUIT event clears is_running.
\* The window is closed in frame MaxFrames at the latest.
HandleEvents ==
    /\ pc = "events"
    /\ \E quit \in (IF frame + 1 < MaxFrames THEN {FALSE, TRUE} ELSE {TRUE}) :
          is_running' = ~quit
    /\ frame' = frame + 1
    /\ pc' = "rebuild"
    /\ UNCHANGED << config, boids, kd_tree, boid_i, neighbors_separation,
                    neighbors_alignment, neighbors_cohesion, frame_start, last_update >>

\* boid_manager.update_kdtree(): KDTree copies the positions; of an empty
\* population numpy makes a one-dimensional array, which KDTree rejects with
\* ValueError.
UpdateKdtree ==
    /\ pc = "rebuild"
    /\ IF Len(boids) = 0
       THEN /\ pc' = "error"
            /\ UNCHANGED << kd_tree, boid_i, frame_start >>
       ELSE /\ kd_tree' = KDTree(TreePositions(boids))
            /\ frame_start' = boids
            /\ boid_i' = 1
            /\ pc' = "query"
    /\ UNCHANGED << config, boids, is_running, neighbors_separation,
                    neighbors_alignment, neighbors_cohesion, frame, last_update >>

\* the three get_neighbors calls for the current boid
QueryNeighbors ==
    /\ pc = "query"
    /\ neighbors_separation' = GetNeighbors(kd_tree, boids, boid_i, config.separation_radius)
    /\ neighbors_alignment' = GetNeighbors(kd_tree, boids, boid_i, config.alignment_radius)
    /\ neighbors_cohesion' = GetNeighbors(kd_tree, boids, boid_i, config.cohesion_radius)
    /\ pc' = "update"
    /\ UNCHANGED << config, boids, kd_tree, is_running, boid_i, frame, frame_start,
                    last_update >>

\* mutant of StoreBoid: the call leaves every boid as `after`
StoreBoid_All(bs, i, after) == [k \in 1..Len(bs) |-> after]

\* the boids after self.boids[i] has been left as `after` by a call
StoreBoid(bs, i, after) == [bs EXCEPT ![i] = after]

\* boid.update(...): an uncaught ValueError ends run_simulation
Update ==
    /\ pc = "update"
    /\ \E res \in {BoidUpdate(boids[boid_i], neighbors_separation, neighbors_alignment,
                             neighbors_cohesion, boids, config)} :
           /\ boids' = StoreBoid(boids, boid_i, res.boid)
           /\ last_update' = [self |-> boid_i, raised |-> res.raised,
                               forces |-> res.forces, position |-> res.boid.position]
           /\ pc' = IF res.raised THEN "error" ELSE "wrap"
    /\ UNCHANGED << config, kd_tree, is_running, boid_i, neighbors_separation,
                    neighbors_alignment, neighbors_cohesion, frame, frame_start >>

\* boid_manager.apply_screen_wrap(boid)
ApplyScreenWrap ==
    /\ pc = "wrap"
    /\ boids' = StoreBoid(boids, boid_i, ScreenWrap(boids[boid_i], config))
    /\ pc' = "draw"
    /\ UNCHANGED << config, kd_tree, is_running, boid_i, neighbors_separation,
                    neighbors_alignment, neighbors_cohesion, frame, frame_start,
                    last_update >>

\* the two gfxdraw calls read boid.vertices; then the for loop moves on
Draw ==
    /\ pc = "draw"
    /\ IF boid_i < Len(boids)
       THEN boid_i' = boid_i + 1 /\ pc' = "query"
       ELSE boid_i' = boid_i /\ pc' = "flip"
    /\ UNCHANGED << config, boids, kd_tree, is_running, neighbors_separation,
                    neighbors_alignment, neighbors_cohesion, frame, frame_start,
                    last_update >>

\* pygame.display.flip() and the while test
Flip ==
    /\ pc = "flip"
    /\ pc' = IF is_running THEN "events" ELSE "done"
    /\ UNCHANGED << config, boids, kd_tree, is_running, boid_i, neighbors_separation,
                    neighbors_alignment, neighbors_cohesion, frame, frame_start,
                    last_update >>

Next ==
    \/ HandleEvents
    \/ UpdateKdtree
    \/ QueryNeighbors
    \/ Update
    \/ ApplyScreenWrap
    \/ Draw
    \/ Flip

Spec == Init /\ [][Next]_vars


\* ------------------------------------------------- notions of the claims
\* one unit in the last place of a float
Ulp(a) == Fl(1, a.e)

\* |a - b| is at most n units in the last place of ref
Within(a, b, n, ref) == Le(AbsF(Sub(a, b)), Mul(FromInt(n), Ulp(ref)))

\* a - b is exactly a whole multiple of the integer w
Congruent(a, b, w) ==
    \/ a = b
    \/ LET lo == IF a.e < b.e THEN a.e ELSE b.e
           hi == IF a.e < b.e THEN b.e ELSE a.e
           D == a.m * Pow2(a.e - lo) - b.m * Pow2(b.e - lo)
       IN  /\ hi - lo <= 2 * MantissaBits
           /\ lo >= -2 * MantissaBits
           /\ IF lo >= 0 THEN (D * Pow2(lo)) % w = 0 ELSE D % (w * Pow2(-lo)) = 0

Range(seq) == {seq[k] : k \in 1..Len(seq)}

\* Boid i's last update call did not complete (it raised).
Failed(i) == pc = "error" /\ last_update.raised /\ last_update.self = i

\* The frame's update of the current boid has completed.
Updated == pc \in {"wrap", "draw"} /\ last_update.self = boid_i


\* ------------------------------------------------------------ the claims

\* C1 (as claimed): the forces an update applies are those computed from the
\* positions and velocities all boids had when the frame's KD-tree was built,
\* never from a boid already moved in the same frame.
C1_ForcesFromFrameStart ==
    Updated =>
        last_update.forces = Forces(frame_start[boid_i], neighbors_separation,
                                    neighbors_alignment, neighbors_cohesion,
                                    frame_start, config)

\* C2: after initialization and after every completed update, the magnitude
\* of every boid's velocity is max_velocity, within one unit in the last
\* place (the floating tolerance of the specification's speed invariant).
C2_SpeedInvariant ==
    \A i \in 1..Len(boids) :
        ~Failed(i) =>
            Within(Magnitude(boids[i].velocity), config.max_velocity, 1,
                   config.max_velocity)

\* C2's case: an update with a nonzero force has turned a boid of a flock whose
\* max_velocity is not 1.
C2_Witness ==
    /\ Updated
    /\ config.max_velocity # One
    /\ last_update.forces # NoForces
    /\ boids[boid_i].velocity # frame_start[boid_i].velocity

\* C3 (as claimed): after the wrap a boid's position lies in [0, width) x
\* [0, height) and is congruent, modulo the bounds, to the position its update
\* left; so between frames and in the KD-tree every position is in bounds.
C3_WrappedIntoWorld ==
    /\ pc = "draw" =>
          /\ InWorld(boids[boid_i].position, config)
          /\ Congruent(boids[boid_i].position[1], last_update.position[1], config.width)
          /\ Congruent(boids[boid_i].position[2], last_update.position[2], config.height)
    /\ pc \in {"flip", "events", "done"} =>
          \A i \in 1..Len(boids) : InWorld(boids[i].position, config)
    /\ kd_tree.present =>
          \A i \in 1..Len(kd_tree.data) : InWorld(kd_tree.data[i], config)

\* One of the three neighbour lists of the current boid is exactly what the
\* frame's KD-tree gives for the radius: every other boid whose indexed
\* position is within the radius of the current boid's, each once.
Expected(radius) ==
    {j \in 1..Len(boids) :
        j # boid_i /\ WithinRadius(kd_tree.data[j], kd_tree.data[boid_i], radius)}

Exactly(list, radius) ==
    /\ Range(list) = Expected(radius)
    /\ Len(list) = Cardinality(Expected(radius))

\* C4: each get_neighbors call of a frame returns exactly the boids other
\* than the caller whose position in the KD-tree built at the start of the
\* frame is within the radius of the caller's; the caller is never returned,
\* another boid at the caller's very position is.
C4_NeighborQuery ==
    pc = "update" =>
        /\ kd_tree.present
        /\ Exactly(neighbors_separation, config.separation_radius)
        /\ Exactly(neighbors_alignment, config.alignment_radius)
        /\ Exactly(neighbors_cohesion, config.cohesion_radius)

\* C4's case: the query has returned another boid that sits at the very
\* position of the caller.
C4_Witness ==
    /\ pc = "update"
    /\ \E j \in Range(neighbors_separation) :
          j # boid_i /\ boids[j].position = boids[boid_i].position

\* the two-agent separation scenario of the specification, entered in frame 1
IsScenario ==
    /\ config = ScenarioConfig(config.width, config.height, 2)
    /\ Len(frame_start) = 2
    /\ frame = 1
    /\ frame_start[1].position = <<Zero, Zero>>
    /\ frame_start[2].position = <<One, Zero>>
    /\ frame_start[1].velocity = <<One, Zero>>
    /\ frame_start[2].velocity = <<One, Zero>>

\* C5 (as claimed): in the two-agent separation scenario, in any world that
\* contains both start positions, after the frame both velocities have
\* magnitude 1, the boid that started at (0,0) heads toward negative x and the
\* boid that started at (1,0) toward positive x.
C5_SeparationScenario ==
    (IsScenario /\ pc \in {"flip", "error"}) =>
        /\ pc = "flip"
        /\ Magnitude(boids[1].velocity) = One
        /\ Magnitude(boids[2].velocity) = One
        /\ Lt(boids[1].velocity[1], Zero)
        /\ Lt(Zero, boids[2].velocity[1])

\* the current boid had no neighbour within any of the three radii
Lone ==
    /\ neighbors_separation = <<>>
    /\ neighbors_alignment = <<>>
    /\ neighbors_cohesion = <<>>

\* C6 (as claimed): the update of a boid with no neighbours computes three
\* zero forces and leaves the boid's velocity and heading as they were.
C6_LoneAgentUnchanged ==
    (Updated /\ Lone) =>
        /\ last_update.forces = NoForces
        /\ boids[boid_i].velocity = frame_start[boid_i].velocity
        /\ boids[boid_i].heading = frame_start[boid_i].heading

\* C6 (amended): the update of a boid with no neighbours computes three zero
\* forces and renormalises the velocity: each component stays within one unit
\* in the last place of max_velocity of what it was, the heading is the
\* arctan2 of the renormalised velocity, and the boid moves by the
\* renormalised velocity.
C6_LoneAgentRenormalised ==
    (Updated /\ Lone) =>
        /\ last_update.forces = NoForces
        /\ \A c \in 1..2 :
              Within(boids[boid_i].velocity[c], frame_start[boid_i].velocity[c], 1,
                     config.max_velocity)
        /\ boids[boid_i].heading =
              Atan2(boids[boid_i].velocity[2], boids[boid_i].velocity[1])
        /\ last_update.position =
              PointAdd(frame_start[boid_i].position, boids[boid_i].velocity)

\* C6's case: a boid with no neighbours has been updated, in a flock whose
\* alignment and cohesion weights are not zero, and its velocity is no longer
\* the one it had.
C6_Witness ==
    /\ Updated
    /\ Lone
    /\ config.alignment_weight # Zero
    /\ boids[boid_i].velocity # frame_start[boid_i].velocity

\* C7: after initialization and after every completed update, every boid's
\* heading is the arctan2 of its current velocity; the wrap changes neither.
C7_HeadingOfVelocity ==
    \A i \in 1..Len(boids) :
        ~Failed(i) =>
            boids[i].heading = Atan2(boids[i].velocity[2], boids[i].velocity[1])

\* C7's case: an update has turned a boid, and the boid has since been wrapped.
C7_Witness ==
    /\ pc = "draw"
    /\ last_update.self = boid_i
    /\ boids[boid_i].heading # frame_start[boid_i].heading
    /\ boids[boid_i].position # last_update.position

\* the current boid as it was when its update was called
Self0 == frame_start[boid_i]

\* a separation neighbour sits at the very position of the boid
Coincident ==
    \E j \in Range(neighbors_separation) : boids[j].position = Self0.position

\* old velocity + the three weighted forces is exactly (0, 0)
CombinedZero ==
    CombinedVelocity(Self0.velocity,
                     Forces(Self0, neighbors_separation, neighbors_alignment,
                            neighbors_cohesion, boids, config)) = ZeroVec

\* C8: an update call raises the zero-magnitude ValueError exactly when a
\* separation neighbour is at the boid's own position or the old velocity plus
\* the three weighted forces is exactly (0, 0); otherwise it completes.
C8_UpdateRaises ==
    (pc \in {"wrap", "error"} /\ Len(boids) >= 1 /\ last_update.self = boid_i) =>
        (last_update.raised <=> (Coincident \/ CombinedZero))

\* C8's case: an update has raised with no coincident neighbour, because the
\* combined velocity was exactly zero.
C8_Witness ==
    /\ pc = "error"
    /\ Len(boids) >= 1
    /\ last_update.raised
    /\ last_update.self = boid_i
    /\ ~Coincident
    /\ CombinedZero

\* C9 (as claimed): whenever the KD-tree is present it has one entry per
\* boid, in the boids' order, and entry i is the current position of boid i.
C9_IndexIsCurrent ==
    kd_tree.present =>
        /\ Len(kd_tree.data) = Len(boids)
        /\ \A i \in 1..Len(boids) : kd_tree.data[i] = boids[i].position

\* the boids the frame under way has not updated yet
Pending ==
    IF pc \in {"query", "update"} THEN boid_i..Len(boids)
    ELSE IF pc \in {"wrap", "draw", "error"} THEN (boid_i + 1)..Len(boids)
    ELSE {}

\* C9 (amended): the boids never change in number; whenever the KD-tree is
\* present it has one entry per boid, in the boids' order, entry i is the
\* position boid i had when the tree was last built, and it is the current
\* position of every boid the frame under way has not updated yet.
C9_IndexIsFrameStart ==
    /\ Len(boids) = config.num_boids
    /\ kd_tree.present =>
          /\ Len(kd_tree.data) = Len(boids)
          /\ \A i \in 1..Len(boids) : kd_tree.data[i] = frame_start[i].position
          /\ \A i \in Pending : kd_tree.data[i] = boids[i].position

\* C9's case: the second of two boids at different positions is about to be
\* updated, and the first has already moved away from its entry.
C9_Witness ==
    /\ kd_tree.present
    /\ Len(boids) = 2
    /\ pc = "update"
    /\ boid_i = 2
    /\ kd_tree.data[1] # kd_tree.data[2]
    /\ kd_tree.data[1] # boids[1].position

\* a step of the query, update and wrap of the current boid changes no other
\* boid, nor the KD-tree, nor the number of boids, nor the configuration
FrameOfUpdate ==
    pc \in {"query", "update", "wrap"} =>
        /\ \A j \in 1..Len(boids) : j # boid_i => boids'[j] = boids[j]
        /\ Len(boids') = Len(boids)
        /\ kd_tree' = kd_tree
        /\ config' = config

\* C10: querying, updating and wrapping boid i changes only boid i: every
\* other boid, the contents of the KD-tree, the boid sequence and the world
\* bounds are left unchanged.
C10_FrameOfUpdate == [][FrameOfUpdate]_vars

\* C10's case: of two different boids the first has been updated and wrapped.
C10_Witness ==
    /\ pc = "draw"
    /\ Len(boids) = 2
    /\ boid_i = 1
    /\ boids[1] # frame_start[1]
    /\ boids[1] # boids[2]
    /\ boids[2] = frame_start[2]

\* C11 (as claimed): when an update call raises the zero-magnitude
\* ValueError, the boid's position, heading, velocity and vertices are what
\* they were before the call, so the magnitude of its velocity is still
\* max_velocity (within one unit in the last place).
C11_FailureAtomicity ==
    (Failed(boid_i) /\ Len(boids) >= 1) =>
        /\ boids[boid_i] = frame_start[boid_i]
        /\ Within(Magnitude(boids[boid_i].velocity), config.max_velocity, 1,
                  config.max_velocity)

\* C12 (as claimed): where a boid is drawn, after its update and wrap, its
\* three vertices are the triangle computed from its current position and
\* current heading, also when the wrap has changed the position.
C12_VerticesOfPosition ==
    pc = "draw" =>
        boids[boid_i].vertices =
            ComputeVertices(boids[boid_i].position, boids[boid_i].heading, config)

====
